---- MODULE Spec2Model ----
(***************************************************************************)
(* unifi-tools: the UniFi controller client (src/unifi/__init__.py) and    *)
(* the monitor built on it (src/monitor/unifi-monitor.py).                 *)
(*                                                                         *)
(* Spec       the unifi-monitor main loop with both comparators            *)
(* SpecVpn    monitor_vpn_connections applied to bounded snapshot pairs    *)
(* SpecPorts  monitor_ports applied to bounded snapshot pairs              *)
(* SpecPolls  monitor_ports called poll after poll                         *)
(* SpecManager  a unifi-manager run (src/manager/unifi-manager.py) asking  *)
(*            for a provision and for the access-point action              *)
(* SpecDecode the device decoder applied to bounded stat/device answers    *)
(* SpecMac    the client operations that send a MAC                        *)
(* SpecStandalone  the unifi-monitor-vpn main loop                         *)
(*            (src/monitor-vpn/unifi-monitor-vpn.py)                       *)
(*                                                                         *)
(* Modelling conventions                                                   *)
(*  - a Python exception is the string naming it; "None" is no exception   *)
(*  - an interface name is a sequence of characters, so that startswith    *)
(*    is computed and not assumed                                          *)
(*  - a port whose 'speed' key was left unset carries the marker Unset;    *)
(*    reading port['speed'] on it raises KeyError, written                 *)
(*    "KeyError: 'speed'" to tell it from the KeyError of the state lookup *)
(*  - notifier.sendMessage is the external sink: it records the message    *)
(*    and returns                                                          *)
(***************************************************************************)
EXTENDS Integers, Sequences, FiniteSets, TLC

VARIABLES
    pc,                        \* position of __main__ in the monitor loop
    active,                    \* unifi-monitor.py:166
    error_count,               \* unifi-monitor.py:167
    period,                    \* args.period, unifi-monitor.py:121
    session,                   \* state of the current Unifi._session
    exc,                       \* exception raised by the last step of the try body
    sleeping,                  \* argument of the sleep() the loop is blocked in, 0 if none
    streak,                    \* failures since the last completed poll cycle (history)
    previous_vpn_connections,  \* monitor_vpn_connections.previous_vpn_connections
    previous_devices,          \* monitor_ports.previous_devices
    compared_vpn_connections,  \* local previous_vpn_connections (line 31) of the last call
    fetched_vpn_connections,   \* local current_vpn_connections (line 33), last one fetched
    compared_devices,          \* local previous_devices (line 59) of the last call
    fetched_devices,           \* local current_devices (line 61), last one fetched
    sent,                      \* notifier.sendMessage calls made by the last step
    requests,                  \* HTTP requests issued by the last step
    args,                      \* unifi-manager.py:108, the options of the run
    cached_devices,            \* get_devices.devices, unifi-manager.py:41-42
    controller_devices,        \* 'data' of the controller's stat/device answer in a
                               \* manager run or a decoder call
    returned,                  \* outcome of the last decoder call: [raised, value]
    mac_address                \* the MAC handed to a client operation;
                               \* unifi-manager.py:183-191 in a manager run

snapshots == <<previous_vpn_connections, compared_vpn_connections, fetched_vpn_connections,
               previous_devices, compared_devices, fetched_devices>>

manager == <<args, cached_devices, controller_devices, returned, mac_address>>

vars == <<pc, active, error_count, period, session, exc, sleeping, streak,
          snapshots, sent, requests, manager>>

----------------------------------------------------------------------------
(* Bounds *)

MaxErrors == 3      \* cap on error_count (the code has none)
MaxVpnLen == 3      \* longest routing table / VPN snapshot in SpecVpn
MaxPorts  == 2      \* highest port index of a device in SpecPorts

SeqsUpTo(S, n) == UNION {[1..k -> S] : k \in 0..n}

Range(s) == {s[i] : i \in DOMAIN s}

----------------------------------------------------------------------------
(* Controller answers *)

l2tp0 == <<"l", "2", "t", "p", "0">>
l2tp1 == <<"l", "2", "t", "p", "1">>
eth0  == <<"e", "t", "h", "0">>
l2    == <<"l", "2">>

\* str.startswith, unifi/__init__.py:99
startswith(s, prefix) ==
    /\ Len(s) >= Len(prefix)
    /\ SubSeq(s, 1, Len(prefix)) = prefix

Addrs == {"10.0.0.5", "10.0.0.9"}

\* one element of the 'data' array of stat/routing: data['nh'][0]['intf'], data['pfx']
RoutingEntry(intf, pfx) == [intf |-> intf, pfx |-> pfx]

RoutingEntries == {RoutingEntry(l2tp0, a) : a \in Addrs} \cup {RoutingEntry(eth0, "10.0.0.9")}

\* the VPN connections these entries decode to
VpnConnections == {[if |-> e.intf, addr |-> e.pfx] :
                       e \in {x \in RoutingEntries : x.intf = l2tp0}}

\* stat/routing 'data' arrays the monitor loop is run against
LoopRoutingData ==
    {<<>>, <<RoutingEntry(l2, "10.0.0.5")>>, <<RoutingEntry(l2tp1, "10.0.0.5")>>,
     <<RoutingEntry(l2tp0, "10.0.0.5"), RoutingEntry(eth0, "10.0.0.9")>>}
        \cup {<<RoutingEntry(l2tp0, a)>> : a \in Addrs}

\* what an HTTP call can end in besides a response: requests raises
\* ConnectionError, the operator interrupts the blocking call, or the body is
\* not the JSON that _session_do_action and the caller read
NetFailures == {"ConnectionError", "KeyboardInterrupt", "JSONDecodeError"}

Response(data) == [kind |-> "response", status |-> 200, data |-> data]
Failure(kind)  == [kind |-> kind, status |-> 0, data |-> <<>>]

Request(method, path) == [method |-> method, path |-> path]

\* f-string formatting of a port index
Str(i) == CASE i = 0 -> "0" [] i = 1 -> "1" [] i = 2 -> "2" [] i = 3 -> "3"
            [] i = 4 -> "4" [] OTHER -> "n"

\* marker of a dict key that was never set
Unset == "<unset>"

\* device names the controller reports
DeviceNames == {"Switch-Bureau", "Switch-Salon"}

\* raw 'state' codes: one known, one undocumented
StateCodes == {1, 9}

\* raw port records: port_idx, up ('up' may be absent), speed
RawPort(idx, up, speed) ==
    [port_idx |-> idx, name |-> "Port " \o Str(idx), enable |-> TRUE, up |-> up, speed |-> speed]

\* the '_id' and 'mac' the controller holds for a device name
DeviceId(name) ==
    CASE name = "Switch-Bureau" -> "5f01" [] name = "Switch-Salon" -> "5f02"
      [] name = "AP-Salon" -> "5f03" [] OTHER -> "5f00"

DeviceMac(name) ==
    CASE name = "Switch-Bureau" -> "fc:ec:da:00:00:01"
      [] name = "Switch-Salon" -> "fc:ec:da:00:00:02"
      [] name = "AP-Salon" -> "fc:ec:da:00:00:03"
      [] OTHER -> "fc:ec:da:00:00:00"

RawDevice(name, state, type, port_table) ==
    [_id |-> DeviceId(name), name |-> name, mac |-> DeviceMac(name),
     state |-> state, type |-> type, port_table |-> port_table]

\* stat/device 'data' arrays the monitor loop is run against: no device, or
\* one device with one port
LoopDeviceData ==
    {<<>>} \cup {<<RawDevice(n, c, "usw", <<RawPort(2, up, sp)>>)>> :
                    n \in DeviceNames, c \in StateCodes,
                    up \in {"true", "false"}, sp \in {1000, 2500}}

\* what the controller reports of one port: (up, speed)
PortReports == {<<"false", 1000>>, <<"true", 1000>>, <<"true", 2500>>}

RECURSIVE port_table(_, _)
\* the port_table with the ports i..Len(f) that f reports, in index order
port_table(f, i) ==
    IF i > Len(f) THEN <<>>
    ELSE (IF f[i] = <<>> THEN <<>> ELSE <<RawPort(i, f[i][1], f[i][2])>>)
             \o port_table(f, i + 1)

\* port tables over the indices 1..n, each index present at most once
PortTables(n) == {port_table(f, 1) : f \in [1..n -> PortReports \cup {<<>>}]}

\* stat/device 'data' arrays monitor_ports is run against: Switch-Bureau with
\* up to MaxPorts ports and Switch-Salon with up to one, each present or not
PortsDeviceData ==
    LET bureau == {<<>>} \cup {<<RawDevice("Switch-Bureau", 1, "usw", t)>> :
                                  t \in PortTables(MaxPorts)}
        salon  == {<<>>} \cup {<<RawDevice("Switch-Salon", 1, "usw", t)>> :
                                  t \in PortTables(1)}
    IN  {b \o x : b \in bureau, x \in salon} \cup {x \o b : b \in bureau, x \in salon}

\* HTTP status codes the login request is answered with
LoginOutcomes ==
    {[kind |-> "response", status |-> st, data |-> <<>>] : st \in {200, 400, 500}}
        \cup {Failure(k) : k \in NetFailures}

\* values of args.period
Periods == {30, 120}

\* Python None as the value of an option that was not given
None == "<None>"

\* values given to --disable-ap / --enable-ap: the name of an access point, of
\* a switch, of no device, and the MAC of the access point in both cases
ApArguments ==
    {"AP-Salon", "Switch-Bureau", "AP-Cave", "fc:ec:da:00:00:03", "FC:EC:DA:00:00:03"}

\* the strings whose characters are looked at
Strings == ApArguments \cup {"fc:ec:da:00:00:01", "fc:ec:da:00:00:02"}

\* the characters of these strings
Chars(value) ==
    CASE value = "AP-Salon" -> <<"A", "P", "-", "S", "a", "l", "o", "n">>
      [] value = "Switch-Bureau" ->
             <<"S", "w", "i", "t", "c", "h", "-", "B", "u", "r", "e", "a", "u">>
      [] value = "AP-Cave" -> <<"A", "P", "-", "C", "a", "v", "e">>
      [] value = "fc:ec:da:00:00:03" ->
             <<"f", "c", ":", "e", "c", ":", "d", "a", ":", "0", "0", ":", "0", "0", ":", "0", "3">>
      [] value = "fc:ec:da:00:00:01" ->
             <<"f", "c", ":", "e", "c", ":", "d", "a", ":", "0", "0", ":", "0", "0", ":", "0", "1">>
      [] value = "fc:ec:da:00:00:02" ->
             <<"f", "c", ":", "e", "c", ":", "d", "a", ":", "0", "0", ":", "0", "0", ":", "0", "2">>
      [] value = "FC:EC:DA:00:00:03" ->
             <<"F", "C", ":", "E", "C", ":", "D", "A", ":", "0", "0", ":", "0", "0", ":", "0", "3">>
      [] OTHER -> <<>>

\* MACs handed to the client operations
MacArguments == {"fc:ec:da:00:00:03", "FC:EC:DA:00:00:03"}

\* the options of a manager run that asks for a provision, for the
\* access-point action, for both or for nothing; --provision takes the same
\* kinds of value as --disable-ap
ManagerRuns ==
    [provision : ApArguments \cup {None}, disable_ap : ApArguments \cup {None},
     enable_ap : ApArguments \cup {None}]

NoArgs == [provision |-> None, disable_ap |-> None, enable_ap |-> None]

\* raw 'state' codes a device goes through while it is provisioned, and one
\* that is undocumented
ProvisionStateCodes == {0, 1, 5, 9}

\* the 'type' the controller holds for a device name
DeviceType(name) == IF name = "AP-Salon" THEN "uap" ELSE "usw"


\* get_devices has no attribute "devices" yet
NoCache == [set |-> FALSE, value |-> <<>>]

NoReturn == [raised |-> "None", value |-> <<>>]

\* stat/device 'data' arrays a manager run is made against
ManagerDeviceData ==
    LET bureau == RawDevice("Switch-Bureau", 1, "usw", <<RawPort(1, "true", 1000)>>)
    IN  {<<>>, <<bureau>>, <<bureau, RawDevice("AP-Salon", 1, "uap", <<>>)>>}
            \cup {<<RawDevice("AP-Salon", c, "uap", <<>>)>> : c \in StateCodes}

\* raw 'state' codes and 'type' values the decoder is applied to
RawStateCodes == {0, 1, 2, 4, 5, 6, 9}
RawTypes == {"uap", "ugw", "usw", "uxg"}

\* stat/device 'data' arrays the decoder is applied to: up to two devices
DecodeDeviceData ==
    LET D == {RawDevice(n, c, t, <<>>) :
                  n \in {"AP-Salon", "Switch-Bureau"}, c \in RawStateCodes, t \in RawTypes}
    IN  {<<>>} \cup {<<d>> : d \in D} \cup {<<d, e>> : d \in D, e \in D}

\* the manager and decoder variables in a monitor run
NoManager ==
    /\ args = NoArgs
    /\ cached_devices = NoCache
    /\ controller_devices = <<>>
    /\ returned = NoReturn
    /\ mac_address = None

----------------------------------------------------------------------------
(* Unifi client *)

\* Unifi.login: the exception it ends in, "None" on HTTP 200
login(outcome) ==
    IF outcome.kind # "response" THEN outcome.kind
    ELSE IF outcome.status = 200 THEN "None"
    ELSE IF outcome.status = 400 THEN "RuntimeError: Login failed with provided credentials"
    ELSE "RuntimeError: Login failed with status"

RECURSIVE vpn_filter(_, _)
vpn_filter(data, i) ==
    IF i > Len(data) THEN <<>>
    ELSE LET iface == data[i].intf
             addr  == data[i].pfx
         IN  (IF startswith(iface, <<"l", "2", "t", "p">>)
                 THEN <<[if |-> iface, addr |-> addr]>>
                 ELSE <<>>) \o vpn_filter(data, i + 1)

\* Unifi.vpn_connections on the 'data' array of the stat/routing answer
vpn_connections(data) == vpn_filter(data, 1)

\* Unifi._device_state_values, a dict keyed by the raw code
_device_state_values ==
    (0 :> "disconnected" @@ 1 :> "connected" @@ 4 :> "upgrading"
       @@ 5 :> "provisioning" @@ 6 :> "heartbeat missed")

\* Unifi._extract_port_infos
_extract_port_infos(port_data) ==
    LET speed == IF port_data.up \in {"absent", "false"} THEN "down"
                 ELSE IF port_data.speed = 10 THEN "10Mbit"
                 ELSE IF port_data.speed = 100 THEN "100Mbit"
                 ELSE IF port_data.speed = 1000 THEN "1Gbit"
                 ELSE Unset
    IN  [name |-> port_data.name, enable |-> port_data.enable,
         index |-> port_data.port_idx, speed |-> speed]

\* the dict lookup of line 182: KeyError on a code that is no key, and the
\* handler of line 183 catches ValueError only
device_state_lookup(code) ==
    IF code \in DOMAIN _device_state_values
        THEN [raised |-> "None", value |-> _device_state_values[code]]
        ELSE [raised |-> "KeyError", value |-> "other"]

\* Unifi._extract_device_infos: [raised, value]
_extract_device_infos(device_data) ==
    LET state == device_state_lookup(device_data.state)
        type  == IF device_data.type = "uap" THEN "access point"
                 ELSE IF device_data.type = "ugw" THEN "Gateway"
                 ELSE IF device_data.type = "usw" THEN "switch"
                 ELSE "other"
        ports == [i \in 1..Len(device_data.port_table) |->
                      _extract_port_infos(device_data.port_table[i])]
    IN  [raised |-> state.raised,
         value  |-> [id |-> device_data._id, name |-> device_data.name,
                     mac |-> device_data.mac, state |-> state.value,
                     type |-> type, ports |-> ports]]

RECURSIVE decode_devices(_, _, _)
decode_devices(data, i, devices) ==
    IF i > Len(data) THEN [raised |-> "None", value |-> devices]
    ELSE LET d == _extract_device_infos(data[i])
         IN  IF d.raised # "None" THEN [raised |-> d.raised, value |-> <<>>]
             ELSE decode_devices(data, i + 1, Append(devices, d.value))

\* Unifi.list_devices on the 'data' array of the stat/device answer: [raised, value]
list_devices(data) == decode_devices(data, 1, <<>>)

\* Unifi.get_device_status on the 'data' array of the stat/device/{mac}
\* answer: data[0] of an empty array raises IndexError
get_device_status(data) ==
    IF data = <<>> THEN [raised |-> "IndexError", value |-> <<>>]
    ELSE LET d == _extract_device_infos(data[1])
         IN  IF d.raised # "None" THEN [raised |-> d.raised, value |-> <<>>] ELSE d

\* Unifi.logout, lines 83-86: the GET, then session.close(); an exception of
\* the GET leaves before the close
logout(outcome, current) ==
    IF outcome.kind # "response" THEN [raised |-> outcome.kind, session |-> current]
    ELSE [raised |-> "None", session |-> "closed"]

\* json.dumps({'disabled': disable})
json_dumps(disable) == IF disable THEN "{\"disabled\": true}" ELSE "{\"disabled\": false}"

\* Unifi.disable_ap: the request it sends
disable_ap(ap_id, disable) ==
    [method |-> "PUT", path |-> "api/s/{site}/rest/device/" \o ap_id,
     data |-> json_dumps(disable)]

----------------------------------------------------------------------------
(* Notifications: notifier.sendMessage(title, icon, blocks) *)

NoConn == [if |-> <<>>, addr |-> ""]

\* a formatted text: the literal part and the values interpolated in it
Text(text, conn, device, port, from, to) ==
    [text |-> text, conn |-> conn, device |-> device, port |-> port,
     from |-> from, to |-> to]

Literal(text) == Text(text, NoConn, "", "", "", "")

Section(message) == [block |-> "Section", message |-> message]
Context(message) == [block |-> "Context", message |-> message]

sendMessage(title, icon, blocks) == [title |-> title, icon |-> icon, blocks |-> blocks]

----------------------------------------------------------------------------
(* unifi-monitor: the two comparators *)

\* unifi-monitor.py:26
ignore_list == ("Switch-Bureau" :> {2})

RECURSIVE vpn_new_positional(_, _, _)
\* vpn_new comparing the two lists position by position
vpn_new_positional(current, previous, i) ==
    IF i > Len(current) THEN <<>>
    ELSE (IF i > Len(previous) \/ current[i] # previous[i]
             THEN <<sendMessage(Literal("New VPN connection"), "INFO",
                        <<Section(Text("if: - addr:", current[i], "", "", "", ""))>>)>>
             ELSE <<>>) \o vpn_new_positional(current, previous, i + 1)

RECURSIVE vpn_new(_, _, _)
\* lines 37-42: one notification per element of current not in previous
vpn_new(current, previous, i) ==
    IF i > Len(current) THEN <<>>
    ELSE (IF current[i] \notin Range(previous)
             THEN <<sendMessage(Literal("New VPN connection"), "INFO",
                        <<Section(Text("if: - addr:", current[i], "", "", "", ""))>>)>>
             ELSE <<>>) \o vpn_new(current, previous, i + 1)

RECURSIVE vpn_closed_by_interface(_, _, _)
\* vpn_closed looking the interface up and not the (interface, address) pair
vpn_closed_by_interface(current, previous, i) ==
    IF i > Len(previous) THEN <<>>
    ELSE (IF previous[i].if \notin {c.if : c \in Range(current)}
             THEN <<sendMessage(Literal("Closed VPN connection"), "INFO",
                        <<Section(Text("if: - addr:", previous[i], "", "", "", ""))>>)>>
             ELSE <<>>) \o vpn_closed_by_interface(current, previous, i + 1)

RECURSIVE vpn_closed(_, _, _)
\* lines 45-50: one notification per element of previous not in current
vpn_closed(current, previous, i) ==
    IF i > Len(previous) THEN <<>>
    ELSE (IF previous[i] \notin Range(current)
             THEN <<sendMessage(Literal("Closed VPN connection"), "INFO",
                        <<Section(Text("if: - addr:", previous[i], "", "", "", ""))>>)>>
             ELSE <<>>) \o vpn_closed(current, previous, i + 1)

\* monitor_vpn_connections losing its snapshot when the fetch raises
monitor_vpn_connections_forgetting(previous, answer) ==
    IF answer.kind # "response"
        THEN [raised |-> answer.kind, sent |-> <<>>,
              previous_vpn_connections |-> <<>>, fetched |-> <<>>]
        ELSE LET current == vpn_connections(answer.data)
             IN  [raised |-> "None",
                  sent   |-> vpn_new(current, previous, 1) \o vpn_closed(current, previous, 1),
                  previous_vpn_connections |-> current,
                  fetched |-> <<current>>]

\* monitor_vpn_connections(unifi, notifier) with the answer the controller
\* gives to the stat/routing request:
\* [raised, sent, previous_vpn_connections, fetched]; fetched is <<current>>
\* once line 33 has returned, <<>> when it raised
monitor_vpn_connections(previous, answer) ==
    IF answer.kind # "response"
        THEN [raised |-> answer.kind, sent |-> <<>>,
              previous_vpn_connections |-> previous, fetched |-> <<>>]
        ELSE LET current == vpn_connections(answer.data)
             IN  [raised |-> "None",
                  sent   |-> vpn_new(current, previous, 1) \o vpn_closed(current, previous, 1),
                  previous_vpn_connections |-> current,
                  fetched |-> <<current>>]

\* next((x for x in seq if key(x) == k), None): position of the first match, 0 for None
\* find_device pairing the devices of the two lists by position
find_device_positional(devices, name, i) ==
    IF Len(devices) >= 1 THEN 1 ELSE 0

RECURSIVE find_device(_, _, _)
find_device(devices, name, i) ==
    IF i > Len(devices) THEN 0
    ELSE IF devices[i].name = name THEN i
    ELSE find_device(devices, name, i + 1)

RECURSIVE find_port(_, _, _)
find_port(ports, index, i) ==
    IF i > Len(ports) THEN 0
    ELSE IF ports[i].index = index THEN i
    ELSE find_port(ports, index, i + 1)

\* ignored reading ignore_list as 0-based port numbers
ignored_zero_based(device, port) ==
    /\ device.name \in DOMAIN ignore_list
    /\ port.index - 1 \in ignore_list[device.name]

\* line 87
ignored(device, port) ==
    /\ device.name \in DOMAIN ignore_list
    /\ port.index \in ignore_list[device.name]

RECURSIVE compare_ports(_, _, _, _, _)
\* lines 74-93 from port number i on: [raised, sent, blocks]
compare_ports(device, previous_device, i, blocks, out) ==
    IF i > Len(device.ports) THEN [raised |-> "None", sent |-> out, blocks |-> blocks]
    ELSE LET port == device.ports[i]
             pp   == find_port(previous_device.ports, port.index, 1)
         IN  IF pp = 0
                 THEN LET message == Text("Device : error while monitoring port #",
                                          NoConn, device.name, Str(port.index), "", "")
                      IN  compare_ports(device, previous_device, i + 1, blocks,
                              Append(out, sendMessage(Literal("UniFi monitor error"),
                                                      "ERROR", <<Section(message)>>)))
             ELSE LET previous_port == previous_device.ports[pp]
                  IN  IF port.speed = Unset \/ previous_port.speed = Unset
                          THEN [raised |-> "KeyError: 'speed'", sent |-> out, blocks |-> blocks]
                      ELSE IF port.speed # previous_port.speed /\ ~ignored(device, port)
                          THEN LET message == Text("Device : port # () speed changed:  => ",
                                                   NoConn, device.name, Str(port.index),
                                                   previous_port.speed, port.speed)
                               IN  compare_ports(device, previous_device, i + 1,
                                                 Append(blocks, Section(message)), out)
                      ELSE compare_ports(device, previous_device, i + 1, blocks, out)

\* lines 95-106: the batched notification of one device
speed_notification(notification_blocks) ==
    IF Len(notification_blocks) > 0
        THEN LET notification_title ==
                     IF Len(notification_blocks) = 1
                         THEN notification_blocks[1].message
                         ELSE Literal("Multiple port speed change")
             IN  <<sendMessage(notification_title, "INFO", notification_blocks)>>
        ELSE <<>>

RECURSIVE compare_devices(_, _, _, _)
\* lines 64-106 from device number i on: [raised, sent]
compare_devices(current, previous, i, out) ==
    IF i > Len(current) THEN [raised |-> "None", sent |-> out]
    ELSE LET device == current[i]
             pd     == find_device(previous, device.name, 1)
         IN  IF pd = 0 THEN compare_devices(current, previous, i + 1, out)
             ELSE LET r == compare_ports(device, previous[pd], 1, <<>>, out)
                  IN  IF r.raised # "None" THEN [raised |-> r.raised, sent |-> r.sent]
                      ELSE compare_devices(current, previous, i + 1,
                                           r.sent \o speed_notification(r.blocks))

\* monitor_ports storing the fetched snapshot before it compares
monitor_ports_storing_first(previous, answer) ==
    IF answer.kind # "response"
        THEN [raised |-> answer.kind, sent |-> <<>>, previous_devices |-> previous,
              fetched |-> <<>>]
        ELSE LET current == list_devices(answer.data)
             IN  IF current.raised # "None"
                     THEN [raised |-> current.raised, sent |-> <<>>,
                           previous_devices |-> previous, fetched |-> <<>>]
                     ELSE LET r == compare_devices(current.value, previous, 1, <<>>)
                          IN  [raised |-> r.raised, sent |-> r.sent,
                               previous_devices |-> current.value,
                               fetched |-> <<current.value>>]

\* monitor_ports(unifi, notifier) with the answer the controller gives to the
\* stat/device request: [raised, sent, previous_devices, fetched]; fetched is
\* <<current>> once line 61 has returned, <<>> when it raised
monitor_ports(previous, answer) ==
    IF answer.kind # "response"
        THEN [raised |-> answer.kind, sent |-> <<>>, previous_devices |-> previous,
              fetched |-> <<>>]
        ELSE LET current == list_devices(answer.data)
             IN  IF current.raised # "None"
                     THEN [raised |-> current.raised, sent |-> <<>>,
                           previous_devices |-> previous, fetched |-> <<>>]
                     ELSE LET r == compare_devices(current.value, previous, 1, <<>>)
                          IN  [raised |-> r.raised, sent |-> r.sent,
                               previous_devices |-> IF r.raised = "None"
                                                        THEN current.value
                                                        ELSE previous,
                               fetched |-> <<current.value>>]

----------------------------------------------------------------------------
(* unifi-monitor: __main__, lines 166-219 *)

ConnectionErrorNotification ==
    sendMessage(Literal("UniFi monitor ConnectionError"), "ERROR",
                <<Context(Literal("ConnectionError: "))>>)

UnhandledNotification ==
    sendMessage(Literal("UniFi monitor error"), "ERROR",
                <<Context(Literal("Unhandled exception: "))>>)

\* except_clauses notifying from the first failure on
except_clauses_notify_first(e, count) ==
    IF e = "KeyboardInterrupt"
        THEN [active |-> FALSE, error_count |-> count, sent |-> <<>>, sleep |-> 0]
    ELSE [active |-> TRUE, error_count |-> count + 1,
          sent |-> IF count + 1 > 0
                       THEN IF e = "ConnectionError" THEN <<ConnectionErrorNotification>>
                                                     ELSE <<UnhandledNotification>>
                       ELSE <<>>,
          sleep |-> 120]

\* except_clauses with a backoff growing with the failures
except_clauses_growing(e, count) ==
    IF e = "KeyboardInterrupt"
        THEN [active |-> FALSE, error_count |-> count, sent |-> <<>>, sleep |-> 0]
    ELSE [active |-> TRUE, error_count |-> count + 1,
          sent |-> IF count + 1 > 1
                       THEN IF e = "ConnectionError" THEN <<ConnectionErrorNotification>>
                                                     ELSE <<UnhandledNotification>>
                       ELSE <<>>,
          sleep |-> 120 * (count + 1)]

\* the except clauses of lines 192-214 up to the sleep they end in:
\* [active, error_count, sent, sleep]
except_clauses(e, count) ==
    IF e = "KeyboardInterrupt"
        THEN [active |-> FALSE, error_count |-> count, sent |-> <<>>, sleep |-> 0]
    ELSE IF e = "ConnectionError"
        THEN [active |-> TRUE, error_count |-> count + 1,
              sent |-> IF count + 1 > 1 THEN <<ConnectionErrorNotification>> ELSE <<>>,
              sleep |-> 120]
    ELSE [active |-> TRUE, error_count |-> count + 1,
          sent |-> IF count + 1 > 1 THEN <<UnhandledNotification>> ELSE <<>>,
          sleep |-> 120]

\* the try body raised e after the step had sent `partial`
Raise(e, partial) ==
    LET h == except_clauses(e, error_count)
    IN  /\ e = "KeyboardInterrupt" \/ error_count < MaxErrors
        /\ exc' = e
        /\ active' = h.active
        /\ error_count' = h.error_count
        /\ sent' = partial \o h.sent
        /\ sleeping' = h.sleep
        /\ streak' = IF e = "KeyboardInterrupt" THEN streak ELSE streak + 1
        /\ pc' = IF h.active THEN "backoff" ELSE "exited"

\* lines 173-174: a new client with a new session, then login
Login ==
    /\ UNCHANGED manager
    /\ pc = "login"
    /\ active
    /\ \E outcome \in LoginOutcomes :
         LET e == login(outcome)
         IN  /\ requests' = <<Request("POST", "api/login")>>
             /\ IF e = "None"
                    THEN /\ session' = "authenticated"
                         /\ pc' = "vpn"
                         /\ exc' = "None"
                         /\ sent' = <<>>
                         /\ UNCHANGED <<active, error_count, sleeping, streak>>
                    ELSE /\ session' = "open"
                         /\ Raise(e, <<>>)
    /\ UNCHANGED <<period, snapshots>>

\* line 181
MonitorVpn ==
    /\ UNCHANGED manager
    /\ pc = "vpn"
    /\ \E data \in LoopRoutingData, kind \in {"response"} \cup NetFailures :
         LET answer == IF kind = "response" THEN Response(data) ELSE Failure(kind)
             r      == monitor_vpn_connections(previous_vpn_connections, answer)
         IN  /\ kind # "response" => data = <<>>
             /\ requests' = <<Request("GET", "api/s/{site}/stat/routing")>>
             /\ previous_vpn_connections' = r.previous_vpn_connections
             /\ compared_vpn_connections' = previous_vpn_connections
             /\ fetched_vpn_connections' =
                    IF r.fetched = <<>> THEN fetched_vpn_connections ELSE r.fetched[1]
             /\ IF r.raised = "None"
                    THEN /\ pc' = "ports"
                         /\ exc' = "None"
                         /\ sent' = r.sent
                         /\ UNCHANGED <<active, error_count, sleeping, streak>>
                    ELSE Raise(r.raised, r.sent)
    /\ UNCHANGED <<period, session, previous_devices, compared_devices, fetched_devices>>

\* lines 185-188: monitor_ports, then the loop blocks in sleep(args.period)
MonitorPorts ==
    /\ UNCHANGED manager
    /\ pc = "ports"
    /\ \E data \in LoopDeviceData, kind \in {"response"} \cup NetFailures :
         LET answer == IF kind = "response" THEN Response(data) ELSE Failure(kind)
             r      == monitor_ports(previous_devices, answer)
         IN  /\ kind # "response" => data = <<>>
             /\ requests' = <<Request("GET", "api/s/{site}/stat/device")>>
             /\ previous_devices' = r.previous_devices
             /\ compared_devices' = previous_devices
             /\ fetched_devices' = IF r.fetched = <<>> THEN fetched_devices ELSE r.fetched[1]
             /\ IF r.raised = "None"
                    THEN /\ pc' = "sleep"
                         /\ exc' = "None"
                         /\ sent' = r.sent
                         /\ sleeping' = period
                         /\ streak' = 0
                         /\ UNCHANGED <<active, error_count>>
                    ELSE Raise(r.raised, r.sent)
    /\ UNCHANGED <<period, session, previous_vpn_connections, compared_vpn_connections,
                   fetched_vpn_connections>>

\* line 188 returns: next cycle
SleepEnd ==
    /\ UNCHANGED manager
    /\ pc = "sleep"
    /\ pc' = "vpn"
    /\ sleeping' = 0
    /\ sent' = <<>>
    /\ requests' = <<>>
    /\ UNCHANGED <<active, error_count, period, session, exc, streak, snapshots>>

\* KeyboardInterrupt in the sleep of line 188, inside the try
SleepInterrupt ==
    /\ UNCHANGED manager
    /\ pc = "sleep"
    /\ requests' = <<>>
    /\ Raise("KeyboardInterrupt", <<>>)
    /\ UNCHANGED <<period, session, snapshots>>

\* sleep(120) of line 204 or 214 returns: back to `while active`
BackoffEnd ==
    /\ UNCHANGED manager
    /\ pc = "backoff"
    /\ pc' = "login"
    /\ sleeping' = 0
    /\ sent' = <<>>
    /\ requests' = <<>>
    /\ UNCHANGED <<active, error_count, period, session, exc, streak, snapshots>>

\* KeyboardInterrupt in sleep(120): raised inside an except clause, so no
\* clause of this try catches it and it leaves the program
BackoffInterrupt ==
    /\ UNCHANGED manager
    /\ pc = "backoff"
    /\ pc' = "crashed"
    /\ exc' = "KeyboardInterrupt"
    /\ sleeping' = 0
    /\ sent' = <<>>
    /\ requests' = <<>>
    /\ UNCHANGED <<active, error_count, period, session, streak, snapshots>>

Init ==
    /\ NoManager
    /\ pc = "login"
    /\ active = TRUE
    /\ error_count = 0
    /\ period \in Periods
    /\ session = "none"
    /\ exc = "None"
    /\ sleeping = 0
    /\ streak = 0
    /\ previous_vpn_connections = <<>>
    /\ compared_vpn_connections = <<>>
    /\ fetched_vpn_connections = <<>>
    /\ previous_devices = <<>>
    /\ compared_devices = <<>>
    /\ fetched_devices = <<>>
    /\ sent = <<>>
    /\ requests = <<>>

Next ==
    \/ Login
    \/ MonitorVpn
    \/ MonitorPorts
    \/ SleepEnd
    \/ SleepInterrupt
    \/ BackoffEnd
    \/ BackoffInterrupt

Spec == Init /\ [][Next]_vars

----------------------------------------------------------------------------
(* monitor_vpn_connections on bounded snapshot pairs *)

VpnCompare ==
    /\ UNCHANGED manager
    /\ pc = "vpn-compare"
    /\ \E data \in SeqsUpTo(RoutingEntries, MaxVpnLen) :
         LET r == monitor_vpn_connections(previous_vpn_connections, Response(data))
         IN  /\ previous_vpn_connections' = r.previous_vpn_connections
             /\ compared_vpn_connections' = previous_vpn_connections
             /\ fetched_vpn_connections' = r.fetched[1]
             /\ sent' = r.sent
             /\ requests' = <<Request("GET", "api/s/{site}/stat/routing")>>
    /\ UNCHANGED <<pc, active, error_count, period, session, exc, sleeping, streak,
                   previous_devices, compared_devices, fetched_devices>>

InitVpn ==
    /\ NoManager
    /\ pc = "vpn-compare"
    /\ active = TRUE
    /\ error_count = 0
    /\ period = 30
    /\ session = "authenticated"
    /\ exc = "None"
    /\ sleeping = 0
    /\ streak = 0
    /\ previous_vpn_connections \in SeqsUpTo(VpnConnections, MaxVpnLen)
    /\ compared_vpn_connections = <<>>
    /\ fetched_vpn_connections = <<>>
    /\ previous_devices = <<>>
    /\ compared_devices = <<>>
    /\ fetched_devices = <<>>
    /\ sent = <<>>
    /\ requests = <<>>

NextVpn == VpnCompare

SpecVpn == InitVpn /\ [][NextVpn]_vars

----------------------------------------------------------------------------
(* monitor_ports on bounded snapshot pairs *)

PortsCompare ==
    /\ UNCHANGED manager
    /\ pc = "ports-compare"
    /\ \E data \in PortsDeviceData :
         LET r == monitor_ports(previous_devices, Response(data))
         IN  /\ previous_devices' = r.previous_devices
             /\ compared_devices' = previous_devices
             /\ fetched_devices' = r.fetched[1]
             /\ sent' = r.sent
             /\ exc' = r.raised
             /\ requests' = <<Request("GET", "api/s/{site}/stat/device")>>
    /\ pc' = "ports-compared"
    /\ UNCHANGED <<active, error_count, period, session, sleeping, streak,
                   previous_vpn_connections, compared_vpn_connections,
                   fetched_vpn_connections>>

InitPorts ==
    /\ NoManager
    /\ pc = "ports-compare"
    /\ active = TRUE
    /\ error_count = 0
    /\ period = 30
    /\ session = "authenticated"
    /\ exc = "None"
    /\ sleeping = 0
    /\ streak = 0
    /\ previous_vpn_connections = <<>>
    /\ compared_vpn_connections = <<>>
    /\ fetched_vpn_connections = <<>>
    /\ previous_devices \in {list_devices(data).value : data \in PortsDeviceData}
    /\ compared_devices = <<>>
    /\ fetched_devices = <<>>
    /\ sent = <<>>
    /\ requests = <<>>

NextPorts == PortsCompare

SpecPorts == InitPorts /\ [][NextPorts]_vars

----------------------------------------------------------------------------
(* monitor_ports called poll after poll *)

\* what the controller reports of one device at one poll: nothing, the device
\* without port, or the device with its port 1
PollReports(name) ==
    {<<>>, <<RawDevice(name, 1, "usw", <<>>)>>}
        \cup {<<RawDevice(name, 1, "usw", <<RawPort(1, p[1], p[2])>>)>> : p \in PortReports}

\* stat/device 'data' arrays of the successive polls
PollDeviceData == {b \o x : b \in PollReports("Switch-Bureau"), x \in PollReports("Switch-Salon")}

\* one call of monitor_ports; after a call that raised, the next call is the
\* one of the cycle that follows the new login
PortsPoll ==
    /\ pc = "ports-poll"
    /\ \E data \in PollDeviceData :
         LET r == monitor_ports(previous_devices, Response(data))
         IN  /\ previous_devices' = r.previous_devices
             /\ compared_devices' = previous_devices
             /\ fetched_devices' = r.fetched[1]
             /\ sent' = r.sent
             /\ exc' = r.raised
             /\ requests' = <<Request("GET", "api/s/{site}/stat/device")>>
    /\ UNCHANGED <<pc, active, error_count, period, session, sleeping, streak,
                   previous_vpn_connections, compared_vpn_connections,
                   fetched_vpn_connections, manager>>

InitPolls ==
    /\ NoManager
    /\ pc = "ports-poll"
    /\ active = TRUE
    /\ error_count = 0
    /\ period = 30
    /\ session = "authenticated"
    /\ exc = "None"
    /\ sleeping = 0
    /\ streak = 0
    /\ previous_vpn_connections = <<>>
    /\ compared_vpn_connections = <<>>
    /\ fetched_vpn_connections = <<>>
    /\ previous_devices = <<>>
    /\ compared_devices = <<>>
    /\ fetched_devices = <<>>
    /\ sent = <<>>
    /\ requests = <<>>

NextPolls == PortsPoll

SpecPolls == InitPolls /\ [][NextPolls]_vars

----------------------------------------------------------------------------
(* unifi-manager: __main__, lines 141-249, run with the provision and the   *)
(* access-point options                                                    *)

Upper == <<"A", "B", "C", "D", "E", "F", "G", "H", "I", "J", "K", "L", "M",
           "N", "O", "P", "Q", "R", "S", "T", "U", "V", "W", "X", "Y", "Z">>
Lower == <<"a", "b", "c", "d", "e", "f", "g", "h", "i", "j", "k", "l", "m",
           "n", "o", "p", "q", "r", "s", "t", "u", "v", "w", "x", "y", "z">>

\* str.lower on a sequence of characters
lower(s) ==
    [i \in DOMAIN s |->
        IF \E k \in DOMAIN Upper : Upper[k] = s[i]
            THEN Lower[CHOOSE k \in DOMAIN Upper : Upper[k] = s[i]]
            ELSE s[i]]

HexDigits == {"0", "1", "2", "3", "4", "5", "6", "7", "8", "9", "a", "b", "c", "d", "e", "f"}

\* is_mac_address, line 28: six pairs of hex digits of value.lower(), joined
\* by the same separator "-", ":" or none
is_mac_address(value) ==
    LET s == lower(Chars(value))
    IN  \E sep \in {<<>>, <<"-">>, <<":">>} :
            LET w == 2 + Len(sep)
            IN  /\ Len(s) = 12 + 5 * Len(sep)
                /\ \A k \in 0..5 : s[k * w + 1] \in HexDigits /\ s[k * w + 2] \in HexDigits
                /\ \A k \in 0..4 : Len(sep) = 1 => s[k * w + 3] = sep[1]

\* str.lower on a string: the string made of the lower-cased characters
str_lower(value) ==
    CHOOSE v \in Strings : Chars(v) = lower(Chars(value))

\* stat/device/{mac} 'data' arrays: empty, or the record of the device with
\* that MAC in one of its states
StatusData(mac) ==
    {<<>>} \cup {<<RawDevice(n, c, DeviceType(n), <<>>)>> :
                    n \in {x \in {"AP-Salon", "Switch-Bureau"} :
                              DeviceMac(x) = str_lower(mac)},
                    c \in ProvisionStateCodes}

\* Unifi.reconnect_client, unifi/__init__.py:142-146: the request it sends
reconnect_client(mac) ==
    [method |-> "POST", path |-> "api/s/{site}/cmd/stamgr",
     data |-> "{\"cmd\": \"kick-sta\", \"mac\": \"" \o str_lower(mac) \o "\"}"]

\* Unifi.force_provision, unifi/__init__.py:239-243: the request it sends
force_provision(mac) ==
    [method |-> "POST", path |-> "api/s/{site}/cmd/devmgr",
     data |-> "{\"cmd\": \"force-provision\", \"mac\": \"" \o str_lower(mac) \o "\"}"]

\* the request of Unifi.get_device_status, unifi/__init__.py:161
status_request(mac) == Request("GET", "api/s/{site}/stat/device/" \o mac)

\* get_devices, lines 40-43: [raised, cache, requests]
get_devices(cache, answer) ==
    IF cache.set THEN [raised |-> "None", cache |-> cache, requests |-> <<>>]
    ELSE LET r == IF answer.kind # "response"
                      THEN [raised |-> answer.kind, value |-> <<>>]
                      ELSE list_devices(answer.data)
         IN  [raised |-> r.raised,
              cache |-> IF r.raised = "None" THEN [set |-> TRUE, value |-> r.value]
                                             ELSE cache,
              requests |-> <<Request("GET", "api/s/{site}/stat/device")>>]

RECURSIVE find_by(_, _, _, _)
\* next((device for device in devices if device[key] == value), None), as the
\* position of the device, 0 for None
find_by(devices, key, value, i) ==
    IF i > Len(devices) THEN 0
    ELSE IF (IF key = "mac" THEN devices[i].mac ELSE devices[i].name) = value THEN i
    ELSE find_by(devices, key, value, i + 1)

\* lines 144-145; an exception leaves by one of the clauses of lines 240-247,
\* which log and fall through to line 249
ManagerLogin ==
    /\ pc = "manager-login"
    /\ \E outcome \in LoginOutcomes :
         LET e == login(outcome)
         IN  /\ requests' = <<Request("POST", "api/login")>>
             /\ session' = IF e = "None" THEN "authenticated" ELSE "open"
             /\ exc' = e
             /\ pc' = IF e = "None" THEN "manager-provision" ELSE "manager-exited"
    /\ UNCHANGED <<active, error_count, period, sleeping, streak, snapshots, sent, manager>>

\* line 197 letting every device but a disconnected one be provisioned
may_provision_unless_disconnected(device) ==
    device.state # "disconnected"

\* line 197: device['state'] == Unifi.DeviceState.CONNECTED
may_provision(device) ==
    device.state = "connected"

\* lines 203, 211: device['state'] == Unifi.DeviceState.PROVISIONING
provisioning(device) ==
    device.state = "provisioning"

\* unifi.get_device_status(mac_address) with the controller's answer: [raised, value]
device_status(answer) ==
    IF answer.kind # "response" THEN [raised |-> answer.kind, value |-> <<>>]
    ELSE get_device_status(answer.data)

\* lines 181-191: mac_address from args.provision
ManagerProvision ==
    /\ pc = "manager-provision"
    /\ IF args.provision = None
           THEN /\ requests' = <<>>
                /\ exc' = "None"
                /\ pc' = "manager-ap"
                /\ UNCHANGED <<cached_devices, mac_address>>
       ELSE IF is_mac_address(args.provision)
           THEN /\ requests' = <<>>
                /\ exc' = "None"
                /\ mac_address' = args.provision
                /\ pc' = "manager-status"
                /\ UNCHANGED cached_devices
       ELSE \E kind \in {"response"} \cup NetFailures :
              LET answer == IF kind = "response" THEN Response(controller_devices)
                                                 ELSE Failure(kind)
                  g      == get_devices(cached_devices, answer)
                  i      == find_by(g.cache.value, "name", args.provision, 1)
              IN  /\ cached_devices' = g.cache
                  /\ requests' = g.requests
                  /\ exc' = g.raised
                  /\ mac_address' = IF g.raised = "None" /\ i # 0 THEN g.cache.value[i].mac
                                                                 ELSE None
                  /\ pc' = IF g.raised # "None" THEN "manager-exited"
                           ELSE IF i = 0 THEN "manager-ap"
                           ELSE "manager-status"
    /\ UNCHANGED <<active, error_count, period, session, sleeping, streak, snapshots, sent,
                   args, controller_devices, returned>>

\* lines 194-198: the status before the command
ManagerStatus ==
    /\ pc = "manager-status"
    /\ \E data \in StatusData(mac_address), kind \in {"response"} \cup NetFailures :
         LET r == device_status(IF kind = "response" THEN Response(data) ELSE Failure(kind))
         IN  /\ kind # "response" => data = <<>>
             /\ requests' = <<status_request(mac_address)>>
             /\ returned' = r
             /\ exc' = r.raised
             /\ pc' = IF r.raised # "None" THEN "manager-exited"
                      ELSE IF may_provision(r.value) THEN "manager-command"
                      ELSE "manager-ap"
    /\ UNCHANGED <<active, error_count, period, session, sleeping, streak, snapshots, sent,
                   args, cached_devices, controller_devices, mac_address>>

\* lines 200-201: the command, then sleep(2)
ManagerCommand ==
    /\ pc = "manager-command"
    /\ requests' = <<force_provision(mac_address)>>
    /\ \E kind \in {"response"} \cup NetFailures :
         /\ exc' = IF kind = "response" THEN "None" ELSE kind
         /\ pc' = IF kind = "response" THEN "manager-check" ELSE "manager-exited"
    /\ UNCHANGED <<active, error_count, period, session, sleeping, streak, snapshots, sent,
                   manager>>

\* lines 202-206: the status after the command
ManagerCheck ==
    /\ pc = "manager-check"
    /\ \E data \in StatusData(mac_address), kind \in {"response"} \cup NetFailures :
         LET r == device_status(IF kind = "response" THEN Response(data) ELSE Failure(kind))
         IN  /\ kind # "response" => data = <<>>
             /\ requests' = <<status_request(mac_address)>>
             /\ returned' = r
             /\ exc' = r.raised
             /\ pc' = IF r.raised # "None" THEN "manager-exited"
                      ELSE IF provisioning(r.value) THEN "manager-wait"
                      ELSE "manager-ap"
    /\ UNCHANGED <<active, error_count, period, session, sleeping, streak, snapshots, sent,
                   args, cached_devices, controller_devices, mac_address>>

\* lines 208-212: one pass of the wait loop, sleep(5) then the status
ManagerWait ==
    /\ pc = "manager-wait"
    /\ \E data \in StatusData(mac_address), kind \in {"response"} \cup NetFailures :
         LET r == device_status(IF kind = "response" THEN Response(data) ELSE Failure(kind))
         IN  /\ kind # "response" => data = <<>>
             /\ requests' = <<status_request(mac_address)>>
             /\ returned' = r
             /\ exc' = r.raised
             /\ pc' = IF r.raised # "None" THEN "manager-exited"
                      ELSE IF provisioning(r.value) THEN "manager-wait"
                      ELSE "manager-ap"
    /\ UNCHANGED <<active, error_count, period, session, sleeping, streak, snapshots, sent,
                   args, cached_devices, controller_devices, mac_address>>

\* lines 218-234
ManagerAp ==
    /\ pc = "manager-ap"
    /\ IF args.disable_ap = None
           THEN /\ requests' = <<>>
                /\ exc' = "None"
                /\ pc' = "manager-logout"
                /\ UNCHANGED cached_devices
           ELSE \E kind \in {"response"} \cup NetFailures, put \in {"response"} \cup NetFailures :
                  LET answer == IF kind = "response" THEN Response(controller_devices)
                                                     ELSE Failure(kind)
                      g      == get_devices(cached_devices, answer)
                      key    == IF is_mac_address(args.disable_ap) THEN "mac" ELSE "name"
                      i      == find_by(g.cache.value, key, args.disable_ap, 1)
                      call   == /\ g.raised = "None"
                                /\ i # 0
                                /\ g.cache.value[i].type = "access point"
                      e      == IF g.raised # "None" THEN g.raised
                                ELSE IF call /\ put # "response" THEN put
                                ELSE "None"
                  IN  /\ ~call => put = "response"
                      /\ cached_devices' = g.cache
                      /\ requests' = g.requests \o
                             (IF call THEN <<disable_ap(g.cache.value[i].id, TRUE)>> ELSE <<>>)
                      /\ exc' = e
                      /\ pc' = IF e = "None" THEN "manager-logout" ELSE "manager-exited"
    /\ UNCHANGED <<active, error_count, period, session, sleeping, streak, snapshots, sent,
                   args, controller_devices, returned, mac_address>>

\* line 238
ManagerLogout ==
    /\ pc = "manager-logout"
    /\ \E kind \in {"response", "ConnectionError", "KeyboardInterrupt"} :
         LET r == logout(IF kind = "response" THEN Response(<<>>) ELSE Failure(kind), session)
         IN  /\ requests' = <<Request("GET", "logout")>>
             /\ session' = r.session
             /\ exc' = r.raised
    /\ pc' = "manager-exited"
    /\ UNCHANGED <<active, error_count, period, sleeping, streak, snapshots, sent, manager>>

InitManager ==
    /\ pc = "manager-login"
    /\ active = TRUE
    /\ error_count = 0
    /\ period = 30
    /\ session = "none"
    /\ exc = "None"
    /\ sleeping = 0
    /\ streak = 0
    /\ previous_vpn_connections = <<>>
    /\ compared_vpn_connections = <<>>
    /\ fetched_vpn_connections = <<>>
    /\ previous_devices = <<>>
    /\ compared_devices = <<>>
    /\ fetched_devices = <<>>
    /\ sent = <<>>
    /\ requests = <<>>
    /\ args \in ManagerRuns
    /\ cached_devices = NoCache
    /\ controller_devices \in ManagerDeviceData
    /\ returned = NoReturn
    /\ mac_address = None

NextManager ==
    \/ ManagerLogin
    \/ ManagerProvision
    \/ ManagerStatus
    \/ ManagerCommand
    \/ ManagerCheck
    \/ ManagerWait
    \/ ManagerAp
    \/ ManagerLogout

SpecManager == InitManager /\ [][NextManager]_vars

----------------------------------------------------------------------------
(* the device decoder on bounded stat/device answers *)

\* Unifi.list_devices, lines 150-158
ListDevices ==
    /\ pc = "call"
    /\ returned' = list_devices(controller_devices)
    /\ requests' = <<Request("GET", "api/s/{site}/stat/device")>>
    /\ pc' = "returned"
    /\ UNCHANGED <<active, error_count, period, session, exc, sleeping, streak, snapshots,
                   sent, args, cached_devices, controller_devices, mac_address>>

\* Unifi.get_device_status, lines 160-163
GetDeviceStatus ==
    /\ pc = "call"
    /\ requests' = <<status_request(mac_address)>>
    /\ returned' = get_device_status(controller_devices)
    /\ pc' = "returned"
    /\ UNCHANGED <<active, error_count, period, session, exc, sleeping, streak, snapshots,
                   sent, args, cached_devices, controller_devices, mac_address>>

InitDecode ==
    /\ pc = "call"
    /\ active = TRUE
    /\ error_count = 0
    /\ period = 30
    /\ session = "authenticated"
    /\ exc = "None"
    /\ sleeping = 0
    /\ streak = 0
    /\ previous_vpn_connections = <<>>
    /\ compared_vpn_connections = <<>>
    /\ fetched_vpn_connections = <<>>
    /\ previous_devices = <<>>
    /\ compared_devices = <<>>
    /\ fetched_devices = <<>>
    /\ sent = <<>>
    /\ requests = <<>>
    /\ args = NoArgs
    /\ cached_devices = NoCache
    /\ controller_devices \in DecodeDeviceData
    /\ returned = NoReturn
    /\ mac_address \in MacArguments

NextDecode ==
    \/ ListDevices
    \/ GetDeviceStatus

SpecDecode == InitDecode /\ [][NextDecode]_vars

----------------------------------------------------------------------------
(* the client operations that send a MAC, called with bounded MACs *)

\* Unifi.reconnect_client
ReconnectClient ==
    /\ pc = "call"
    /\ requests' = <<reconnect_client(mac_address)>>
    /\ \E kind \in {"response"} \cup NetFailures :
         returned' = [raised |-> IF kind = "response" THEN "None" ELSE kind, value |-> <<>>]
    /\ pc' = "returned"
    /\ UNCHANGED <<active, error_count, period, session, exc, sleeping, streak, snapshots,
                   sent, args, cached_devices, controller_devices, mac_address>>

\* Unifi.force_provision
ForceProvision ==
    /\ pc = "call"
    /\ requests' = <<force_provision(mac_address)>>
    /\ \E kind \in {"response"} \cup NetFailures :
         returned' = [raised |-> IF kind = "response" THEN "None" ELSE kind, value |-> <<>>]
    /\ pc' = "returned"
    /\ UNCHANGED <<active, error_count, period, session, exc, sleeping, streak, snapshots,
                   sent, args, cached_devices, controller_devices, mac_address>>

\* answers of at most one device
InitMac ==
    /\ InitDecode
    /\ Len(controller_devices) <= 1

NextMac ==
    \/ ReconnectClient
    \/ ForceProvision
    \/ GetDeviceStatus

SpecMac == InitMac /\ [][NextMac]_vars

----------------------------------------------------------------------------
(* unifi-monitor-vpn: __main__, lines 58-117 *)

StandaloneConnectionErrorNotification ==
    sendMessage(Literal("VPN-monitor ConnectionError"), "ERROR",
                <<Context(Literal("ConnectionError: "))>>)

StandaloneUnhandledNotification ==
    sendMessage(Literal("VPN-monitor error"), "ERROR",
                <<Context(Literal("Unhandled exception: "))>>)

\* standalone_except_clauses notifying of a ConnectionError only
standalone_except_clauses_partial(e) ==
    IF e = "KeyboardInterrupt" THEN [active |-> FALSE, sent |-> <<>>, sleep |-> 0]
    ELSE IF e = "ConnectionError"
        THEN [active |-> TRUE, sent |-> <<StandaloneConnectionErrorNotification>>, sleep |-> 120]
    ELSE [active |-> TRUE, sent |-> <<>>, sleep |-> 120]

\* lines 99-115: [active, sent, sleep]
standalone_except_clauses(e) ==
    IF e = "KeyboardInterrupt" THEN [active |-> FALSE, sent |-> <<>>, sleep |-> 0]
    ELSE IF e = "ConnectionError"
        THEN [active |-> TRUE, sent |-> <<StandaloneConnectionErrorNotification>>, sleep |-> 120]
    ELSE [active |-> TRUE, sent |-> <<StandaloneUnhandledNotification>>, sleep |-> 120]

\* standalone_login keeping the snapshot of the previous session
standalone_login_keeping(outcome, previous) ==
    [raised |-> login(outcome), previous_vpn_connections |-> previous]

\* lines 64-69: login, then the local snapshot starts empty:
\* [raised, previous_vpn_connections]
standalone_login(outcome, previous) ==
    LET e == login(outcome)
    IN  [raised |-> e,
         previous_vpn_connections |-> IF e = "None" THEN <<>> ELSE previous]

\* the try body raised e after the step had sent `partial`
StandaloneRaise(e, partial) ==
    LET h == standalone_except_clauses(e)
    IN  /\ e = "KeyboardInterrupt" \/ streak < MaxErrors
        /\ exc' = e
        /\ active' = h.active
        /\ sent' = partial \o h.sent
        /\ sleeping' = h.sleep
        /\ streak' = IF e = "KeyboardInterrupt" THEN streak ELSE streak + 1
        /\ pc' = IF h.active THEN "standalone-backoff" ELSE "standalone-exited"

\* lines 64-69
StandaloneLogin ==
    /\ pc = "standalone-login"
    /\ active
    /\ \E outcome \in LoginOutcomes :
         LET r == standalone_login(outcome, previous_vpn_connections)
         IN  /\ requests' = <<Request("POST", "api/login")>>
             /\ previous_vpn_connections' = r.previous_vpn_connections
             /\ IF r.raised = "None"
                    THEN /\ session' = "authenticated"
                         /\ pc' = "standalone-poll"
                         /\ exc' = "None"
                         /\ sent' = <<>>
                         /\ UNCHANGED <<active, sleeping, streak>>
                    ELSE /\ session' = "open"
                         /\ StandaloneRaise(r.raised, <<>>)
    /\ UNCHANGED <<error_count, period, compared_vpn_connections, fetched_vpn_connections,
                   previous_devices, compared_devices, fetched_devices, manager>>

\* lines 72-95: one pass of the inner loop, up to the sleep
StandalonePoll ==
    /\ pc = "standalone-poll"
    /\ \E data \in LoopRoutingData, kind \in {"response"} \cup NetFailures :
         /\ kind # "response" => data = <<>>
         /\ requests' = <<Request("GET", "api/s/{site}/stat/routing")>>
         /\ IF kind = "response"
                THEN LET current == vpn_connections(data)
                     IN  /\ sent' = vpn_new(current, previous_vpn_connections, 1)
                                        \o vpn_closed(current, previous_vpn_connections, 1)
                         /\ compared_vpn_connections' = previous_vpn_connections
                         /\ fetched_vpn_connections' = current
                         /\ previous_vpn_connections' = current
                         /\ pc' = "standalone-sleep"
                         /\ exc' = "None"
                         /\ sleeping' = period
                         /\ streak' = 0
                         /\ UNCHANGED active
                ELSE /\ StandaloneRaise(kind, <<>>)
                     /\ UNCHANGED <<previous_vpn_connections, compared_vpn_connections,
                                    fetched_vpn_connections>>
    /\ UNCHANGED <<error_count, period, session, previous_devices, compared_devices,
                   fetched_devices, manager>>

\* line 95 returns
StandaloneSleepEnd ==
    /\ pc = "standalone-sleep"
    /\ pc' = "standalone-poll"
    /\ sleeping' = 0
    /\ sent' = <<>>
    /\ requests' = <<>>
    /\ UNCHANGED <<active, error_count, period, session, exc, streak, snapshots, manager>>

\* KeyboardInterrupt in the sleep of line 95, inside the try
StandaloneSleepInterrupt ==
    /\ pc = "standalone-sleep"
    /\ requests' = <<>>
    /\ StandaloneRaise("KeyboardInterrupt", <<>>)
    /\ UNCHANGED <<error_count, period, session, snapshots, manager>>

\* sleep(120) of line 108 or 115 returns: back to `while active`
StandaloneBackoffEnd ==
    /\ pc = "standalone-backoff"
    /\ pc' = "standalone-login"
    /\ sleeping' = 0
    /\ sent' = <<>>
    /\ requests' = <<>>
    /\ UNCHANGED <<active, error_count, period, session, exc, streak, snapshots, manager>>

\* KeyboardInterrupt in sleep(120): raised inside an except clause, it leaves
\* the program
StandaloneBackoffInterrupt ==
    /\ pc = "standalone-backoff"
    /\ pc' = "standalone-crashed"
    /\ exc' = "KeyboardInterrupt"
    /\ sleeping' = 0
    /\ sent' = <<>>
    /\ requests' = <<>>
    /\ UNCHANGED <<active, error_count, period, session, streak, snapshots, manager>>

InitStandalone ==
    /\ NoManager
    /\ pc = "standalone-login"
    /\ active = TRUE
    /\ error_count = 0
    /\ period \in Periods
    /\ session = "none"
    /\ exc = "None"
    /\ sleeping = 0
    /\ streak = 0
    /\ previous_vpn_connections = <<>>
    /\ compared_vpn_connections = <<>>
    /\ fetched_vpn_connections = <<>>
    /\ previous_devices = <<>>
    /\ compared_devices = <<>>
    /\ fetched_devices = <<>>
    /\ sent = <<>>
    /\ requests = <<>>

NextStandalone ==
    \/ StandaloneLogin
    \/ StandalonePoll
    \/ StandaloneSleepEnd
    \/ StandaloneSleepInterrupt
    \/ StandaloneBackoffEnd
    \/ StandaloneBackoffInterrupt

SpecStandalone == InitStandalone /\ [][NextStandalone]_vars

----------------------------------------------------------------------------
(* Properties of the monitor loop *)

LoginRequested  == \E i \in DOMAIN requests : requests[i] = Request("POST", "api/login")
LogoutRequested == \E i \in DOMAIN requests : requests[i] = Request("GET", "logout")

Rejected == "RuntimeError: Login failed with provided credentials"

\* C1: with error_count at 0, of two failures by ConnectionError in a row the
\* first sends no notification and the second sends exactly one, the
\* ConnectionError notification; after each the loop is in sleep(120), still
\* active, and no login request is made before that sleep returns.
C1_SecondConnectionErrorNotifies ==
    (pc = "backoff" /\ exc = "ConnectionError") =>
        /\ sleeping = 120
        /\ active
        /\ ~ENABLED Login
        /\ error_count = 1 => sent = <<>>
        /\ (error_count = 2 /\ streak = 2) => sent = <<ConnectionErrorNotification>>

C1_Witness ==
    /\ pc = "backoff"
    /\ exc = "ConnectionError"
    /\ error_count = 2
    /\ streak = 2
    /\ sent = <<ConnectionErrorNotification>>

\* C2: whenever the loop is between two poll cycles, a cycle having just
\* completed, the consecutive-error counter is zero.
C2_ErrorCountResetAfterSuccess ==
    pc = "sleep" => error_count = 0

\* C3: a ConnectionError that is the first failure since the last completed
\* poll cycle (or the first ever) sends no notification.
C3_FirstFailureOfStreakSilent ==
    (pc = "backoff" /\ exc = "ConnectionError" /\ streak = 1) => sent = <<>>

\* C4: once login was answered HTTP 400, no login request is made any more.
C4_NoLoginAfterRejectedCredentials ==
    [][exc = Rejected => ~LoginRequested']_vars

\* C5: when the monitor has exited on a keyboard interrupt received while
\* logged in, a logout request was made on the way out.
C5_LogoutBeforeTermination ==
    (pc = "exited" /\ session = "authenticated") => LogoutRequested

\* C6: a keyboard interrupt, the one received in the backoff sleep included,
\* ends the monitor on its normal exit path: active is False and the program
\* runs to its end.
C6_CancelDuringBackoffExitsNormally ==
    exc = "KeyboardInterrupt" => (pc = "exited" /\ ~active)

\* C7: after a failure of login or of a poll cycle by any exception but a
\* keyboard interrupt, whatever the number of failures so far, the loop is in
\* one sleep(120) and then at a new login, which is always possible; the loop
\* ends on a keyboard interrupt only.
C7_FixedBackoffThenLogin ==
    /\ exc \notin {"None", "KeyboardInterrupt"} =>
           /\ active
           /\ \/ pc = "backoff" /\ sleeping = 120
              \/ pc = "login" /\ sleeping = 0
    /\ pc = "backoff" => streak >= 1 /\ error_count >= streak
    /\ pc = "login" => ENABLED Login
    /\ pc \in {"exited", "crashed"} => exc = "KeyboardInterrupt"

C7_Witness ==
    /\ pc = "backoff"
    /\ exc = "RuntimeError: Login failed with status"
    /\ error_count >= 3
    /\ sleeping = 120

\* C8: both comparators hold the snapshot fetched last as their previous
\* snapshot, whether or not the comparison raised.
C8_SnapshotReplacedEvenOnError ==
    /\ previous_vpn_connections = fetched_vpn_connections
    /\ previous_devices = fetched_devices

----------------------------------------------------------------------------
(* Properties of the VPN comparator *)

Opened == {sent[i].blocks[1].message.conn :
               i \in {j \in DOMAIN sent : sent[j].title = Literal("New VPN connection")}}
Closed == {sent[i].blocks[1].message.conn :
               i \in {j \in DOMAIN sent : sent[j].title = Literal("Closed VPN connection")}}

Compared == requests # <<>>

\* C9: when the previous and the current VPN snapshot hold the same set of
\* (interface, address) pairs, in any order and multiplicity, the comparator
\* sends nothing.
C9_SameSetNoEvent ==
    (Compared /\ Range(compared_vpn_connections) = Range(fetched_vpn_connections))
        => sent = <<>>

C9_Witness ==
    /\ Compared
    /\ Range(compared_vpn_connections) = Range(fetched_vpn_connections)
    /\ Len(compared_vpn_connections) # Len(fetched_vpn_connections)
    /\ Len(fetched_vpn_connections) >= 2
    /\ fetched_vpn_connections[1] # compared_vpn_connections[1]
    /\ sent = <<>>

\* C10: opened = current \ previous, closed = previous \ current, opened with
\* the unchanged pairs is current, closed with the unchanged pairs is
\* previous, and no pair is both opened and closed.
C10_VpnSetDifference ==
    Compared =>
        LET P == Range(compared_vpn_connections)
            C == Range(fetched_vpn_connections)
        IN  /\ Opened = C \ P
            /\ Closed = P \ C
            /\ Opened \cup (C \cap P) = C
            /\ Closed \cup (C \cap P) = P
            /\ Opened \cap Closed = {}
            /\ \A i \in DOMAIN sent : sent[i].title \in {Literal("New VPN connection"),
                                                        Literal("Closed VPN connection")}

C10_Witness ==
    /\ Compared
    /\ compared_vpn_connections = <<[if |-> l2tp0, addr |-> "10.0.0.5"]>>
    /\ fetched_vpn_connections = <<[if |-> l2tp0, addr |-> "10.0.0.9"]>>
    /\ Opened = {[if |-> l2tp0, addr |-> "10.0.0.9"]}
    /\ Closed = {[if |-> l2tp0, addr |-> "10.0.0.5"]}
    /\ Len(sent) = 2

NewNotification(c) ==
    sendMessage(Literal("New VPN connection"), "INFO",
                <<Section(Text("if: - addr:", c, "", "", "", ""))>>)
ClosedNotification(c) ==
    sendMessage(Literal("Closed VPN connection"), "INFO",
                <<Section(Text("if: - addr:", c, "", "", "", ""))>>)

Count(s, x) == Cardinality({i \in DOMAIN s : s[i] = x})

\* C11: a pair held more than once by a snapshot is notified at most once as
\* opened and at most once as closed in the cycle.
C11_DuplicatesCollapse ==
    Compared =>
        \A c \in VpnConnections :
            /\ Count(sent, NewNotification(c)) <= 1
            /\ Count(sent, ClosedNotification(c)) <= 1

----------------------------------------------------------------------------
(* Properties of the port comparator *)

SpeedText == "Device : port # () speed changed:  => "
ErrorText == "Device : error while monitoring port #"

PortsCompared == pc = "ports-compared"

\* the messages of all blocks of all notifications of the last step
AllBlocks ==
    UNION {{sent[i].blocks[j].message : j \in DOMAIN sent[i].blocks} : i \in DOMAIN sent}

IgnoredPairs == UNION {{<<d, Str(i)>> : i \in ignore_list[d]} : d \in DOMAIN ignore_list}

Names(devices) == {devices[i].name : i \in DOMAIN devices}

HasPort(device, index, speed) ==
    \E k \in DOMAIN device.ports :
        device.ports[k].index = index /\ device.ports[k].speed = speed

\* C12: no notification carries a speed-change block for a (device, port)
\* pair of the ignore list.
C12_IgnoredPairNeverNotified ==
    \A m \in AllBlocks : m.text = SpeedText => <<m.device, m.port>> \notin IgnoredPairs

C12_Witness ==
    /\ PortsCompared
    /\ exc = "None"
    /\ \E i \in DOMAIN compared_devices, j \in DOMAIN fetched_devices :
          /\ compared_devices[i].name = "Switch-Bureau"
          /\ fetched_devices[j].name = "Switch-Bureau"
          /\ HasPort(compared_devices[i], 2, "1Gbit")
          /\ HasPort(fetched_devices[j], 2, "down")
          /\ Len(fetched_devices[j].ports) = 1
    /\ sent = <<>>

\* C13: every notification of the port comparator is about a device whose
\* name is in the previous snapshot; with an empty previous snapshot there is
\* none.
C13_FirstSeenDeviceSilent ==
    PortsCompared =>
        /\ \A m \in AllBlocks : m.device \in Names(compared_devices)
        /\ compared_devices = <<>> => sent = <<>>

C13_Witness ==
    /\ PortsCompared
    /\ Names(compared_devices) = {"Switch-Bureau"}
    /\ \E j \in DOMAIN fetched_devices :
          /\ fetched_devices[j].name = "Switch-Salon"
          /\ HasPort(fetched_devices[j], 1, "1Gbit")
    /\ sent # <<>>
    /\ exc = "None"

PortErrorNotification(name, index) ==
    sendMessage(Literal("UniFi monitor error"), "ERROR",
                <<Section(Text(ErrorText, NoConn, name, Str(index), "", ""))>>)

\* C14: for a device of both snapshots, each port of the current record whose
\* index the previous record lacks gets one error notification, ignore list
\* or not.
C14_MissingPortReported ==
    PortsCompared =>
        \A i \in DOMAIN fetched_devices :
            LET device == fetched_devices[i]
                pd     == find_device(compared_devices, device.name, 1)
            IN  pd # 0 =>
                    \A k \in DOMAIN device.ports :
                        find_port(compared_devices[pd].ports, device.ports[k].index, 1) = 0
                            => Count(sent, PortErrorNotification(device.name,
                                                                 device.ports[k].index)) = 1

\* the blocks lines 86-93 are to build for a device: one per port, in order,
\* whose speed differs from the previous record's and which is not ignored
ChangedBlocks(device, previous_device) ==
    LET changed(p) ==
            LET pp == find_port(previous_device.ports, p.index, 1)
            IN  /\ pp # 0
                /\ p.speed # previous_device.ports[pp].speed
                /\ ~ignored(device, p)
        ports == SelectSeq(device.ports, changed)
    IN  [k \in 1..Len(ports) |->
            Section(Text(SpeedText, NoConn, device.name, Str(ports[k].index),
                         previous_device.ports[find_port(previous_device.ports,
                                                         ports[k].index, 1)].speed,
                         ports[k].speed))]

SpeedNotifications(name) ==
    {i \in DOMAIN sent : /\ sent[i].icon = "INFO"
                         /\ sent[i].blocks[1].message.text = SpeedText
                         /\ sent[i].blocks[1].message.device = name}

\* C15: each device of both snapshots gets exactly one speed-change
\* notification when a non-ignored port changed speed, carrying one block per
\* such port, and none otherwise.
C15_OneBatchPerDevice ==
    PortsCompared =>
        \A i \in DOMAIN fetched_devices :
            LET device == fetched_devices[i]
                pd     == find_device(compared_devices, device.name, 1)
            IN  pd # 0 =>
                    LET blocks == ChangedBlocks(device, compared_devices[pd])
                    IN  IF blocks = <<>>
                            THEN SpeedNotifications(device.name) = {}
                            ELSE /\ Cardinality(SpeedNotifications(device.name)) = 1
                                 /\ \A n \in SpeedNotifications(device.name) :
                                        sent[n].blocks = blocks

----------------------------------------------------------------------------
(* Properties of a poll cycle of the monitor loop *)

RoutingRequest == Request("GET", "api/s/{site}/stat/routing")
DeviceRequest  == Request("GET", "api/s/{site}/stat/device")

\* the last step asked for stat/device and the answer was received and read
DevicesAnswered == requests = <<DeviceRequest>> /\ exc \notin NetFailures

\* C16: a poll cycle whose stat/routing and stat/device answers decode to the
\* snapshots retained from the cycle before sends no notification, neither
\* from its VPN comparison nor from its port comparison, and ends in the
\* inter-cycle sleep with no exception handled and the session as it was.
C16_UnchangedCycleIsSilent ==
    /\ (pc = "ports" /\ requests = <<RoutingRequest>>
            /\ fetched_vpn_connections = compared_vpn_connections) => sent = <<>>
    /\ (DevicesAnswered /\ exc \in {"None", "KeyError: 'speed'"}
            /\ fetched_vpn_connections = compared_vpn_connections
            /\ fetched_devices = compared_devices)
           => /\ sent = <<>>
              /\ pc = "sleep"
              /\ exc = "None"
              /\ active
              /\ session = "authenticated"

\* C18: whatever stat/device answers (a port up at an unknown speed, a device
\* in an unknown state), the poll cycle completes: the stored snapshot is the
\* one just fetched and the loop is in the inter-cycle sleep.
C18_DecodeAnomalyNeverAborts ==
    DevicesAnswered => (pc = "sleep" /\ previous_devices = fetched_devices)

----------------------------------------------------------------------------
(* Properties of the device decoder *)

\* the raw records the last decoder call read: all of them for list_devices,
\* the first for get_device_status
ReadRecords ==
    IF requests = <<Request("GET", "api/s/{site}/stat/device")>>
        THEN DOMAIN controller_devices
        ELSE {i \in DOMAIN controller_devices : i = 1}

DecodedState(i) ==
    IF requests = <<Request("GET", "api/s/{site}/stat/device")>>
        THEN returned.value[i].state
        ELSE returned.value.state

\* C17: when a decoder call has read a device record whose raw state code is
\* not one of 0, 1, 4, 5, 6, the call returns normally and the decoded device
\* has the state Other.
C17_UnknownStateDecodesToOther ==
    pc = "returned" =>
        \A i \in ReadRecords :
            controller_devices[i].state \notin {0, 1, 4, 5, 6} =>
                /\ returned.raised = "None"
                /\ DecodedState(i) = "other"

----------------------------------------------------------------------------
(* Properties of a unifi-manager run *)

\* C19: once the manager has called logout, no exception has left logout and
\* the session is closed, whatever became of the logout GET.
C19_LogoutNeverRaisesAndCloses ==
    (pc = "manager-exited" /\ LogoutRequested) => (exc = "None" /\ session = "closed")

\* the value names an access point the controller holds, by name or by MAC
IsAccessPoint(value) ==
    \E i \in DOMAIN controller_devices :
        /\ controller_devices[i].type = "uap"
        /\ value \in {controller_devices[i].name, controller_devices[i].mac}

ApId(value) ==
    LET i == CHOOSE i \in DOMAIN controller_devices :
                 /\ controller_devices[i].type = "uap"
                 /\ value \in {controller_devices[i].name, controller_devices[i].mac}
    IN  controller_devices[i]._id

\* C20: when the access-point step of a run has completed, a run asked to
\* enable an existing access point has sent one PUT rest/device/{id} with
\* disabled=false, and a run asked to disable one has sent one PUT with
\* disabled=true.
C20_BothDirectionsOfApAction ==
    pc = "manager-logout" =>
        /\ IsAccessPoint(args.enable_ap) =>
               Count(requests, disable_ap(ApId(args.enable_ap), FALSE)) = 1
        /\ IsAccessPoint(args.disable_ap) =>
               Count(requests, disable_ap(ApId(args.disable_ap), TRUE)) = 1

----------------------------------------------------------------------------
(* Properties of the client operations that send a MAC *)

\* C21: the request made by reconnect_client, force_provision or
\* get_device_status carries, in its payload or its path, the lower-cased
\* form of the MAC the caller gave.
C21_MacSentLowerCased ==
    pc = "returned" =>
        \E i \in DOMAIN requests :
            requests[i] \in {reconnect_client(str_lower(mac_address)),
                             force_provision(str_lower(mac_address)),
                             status_request(str_lower(mac_address))}

----------------------------------------------------------------------------
(* Properties of the snapshots across failures of the monitor loop *)

----------------------------------------------------------------------------
(* Properties of the unifi-monitor-vpn loop *)

\* C23: every login leaves the previous VPN snapshot empty, and the first
\* poll after a login sends one new-connection notification for every tunnel
\* it finds, also for those known before the failure, and no
\* closed-connection notification.
C23_SnapshotResetAtLogin ==
    [][/\ (pc = "standalone-login" /\ pc' = "standalone-poll") =>
              previous_vpn_connections' = <<>>
       /\ (pc = "standalone-poll" /\ LoginRequested /\ pc' = "standalone-sleep") =>
              /\ compared_vpn_connections' = <<>>
              /\ previous_vpn_connections' = fetched_vpn_connections'
              /\ \A c \in Range(fetched_vpn_connections') :
                     Count(sent', NewNotification(c)) >= 1
              /\ \A i \in DOMAIN sent' : sent'[i].title = Literal("New VPN connection")]_vars

\* a new login after a failure has forgotten the tunnel seen before it
C23_Witness ==
    /\ pc = "standalone-poll"
    /\ LoginRequested
    /\ streak >= 1
    /\ fetched_vpn_connections = <<[if |-> l2tp0, addr |-> "10.0.0.5"]>>
    /\ previous_vpn_connections = <<>>

\* C24: after a failure by any exception but a keyboard interrupt, the first
\* one included, the failing step has sent exactly one notification, that of
\* the exception, and the loop is in one sleep(120) and then at a new login,
\* which is always possible.
C24_EveryFailureNotifies ==
    /\ pc = "standalone-backoff" =>
           /\ exc \notin {"None", "KeyboardInterrupt"}
           /\ active
           /\ sleeping = 120
           /\ sent = IF exc = "ConnectionError"
                         THEN <<StandaloneConnectionErrorNotification>>
                         ELSE <<StandaloneUnhandledNotification>>
    /\ (exc \notin {"None", "KeyboardInterrupt"}) =>
           /\ active
           /\ pc \in {"standalone-backoff", "standalone-login"}
    /\ pc = "standalone-login" => sleeping = 0 /\ ENABLED StandaloneLogin

\* the first failure of a run, by an exception other than ConnectionError
C24_Witness ==
    /\ pc = "standalone-backoff"
    /\ streak = 1
    /\ exc = "JSONDecodeError"
    /\ previous_vpn_connections # <<>>
    /\ sent = <<StandaloneUnhandledNotification>>
    /\ sleeping = 120

----------------------------------------------------------------------------
(* Properties of the port comparator over successive polls *)

\* C25: the notifications of a poll are about the devices and ports of the
\* poll just before only: none names a device absent from the answer of the
\* preceding poll, whatever the polls before it held, none names a device or
\* a port absent from the current answer, and a speed change is reported from
\* the speed of the preceding poll.
C25_OnlyPrecedingSnapshot ==
    [][\A m \in AllBlocks' :
           /\ m.device \in Names(fetched_devices)
           /\ \E j \in DOMAIN fetched_devices' :
                  /\ fetched_devices'[j].name = m.device
                  /\ \E k \in DOMAIN fetched_devices'[j].ports :
                         Str(fetched_devices'[j].ports[k].index) = m.port
           /\ m.text = SpeedText =>
                  \E i \in DOMAIN fetched_devices :
                      /\ fetched_devices[i].name = m.device
                      /\ \E k \in DOMAIN fetched_devices[i].ports :
                             /\ Str(fetched_devices[i].ports[k].index) = m.port
                             /\ fetched_devices[i].ports[k].speed = m.from]_vars

----------------------------------------------------------------------------
(* Properties of the order of the two comparisons in a poll cycle *)

\* C26: when the device step of a cycle fails, at the fetch or in the
\* comparison, the device snapshot is left as it was and the VPN snapshot is
\* the one fetched in that cycle; the VPN poll after the reconnect announces
\* no tunnel of that snapshot as new and no tunnel closed in that cycle as
\* closed; a cycle whose VPN fetch fails makes no device request, and a
\* device request is made only after the VPN comparison of its cycle.
C26_VpnCommittedBeforeDevices ==
    [][/\ (pc = "ports" /\ pc' # "sleep") =>
              /\ previous_devices' = previous_devices
              /\ previous_vpn_connections' = fetched_vpn_connections
              /\ fetched_vpn_connections' = fetched_vpn_connections
       /\ (pc = "vpn" /\ pc' = "ports" /\ streak >= 1) =>
              /\ \A c \in Range(previous_vpn_connections) :
                     Count(sent', NewNotification(c)) = 0
              /\ \A c \in Range(compared_vpn_connections) \ Range(previous_vpn_connections) :
                     Count(sent', ClosedNotification(c)) = 0
       /\ (pc = "vpn" /\ pc' # "ports") =>
              /\ requests' = <<RoutingRequest>>
              /\ pc' \in {"backoff", "exited"}
       /\ (\E i \in DOMAIN requests' : requests'[i] = DeviceRequest) =>
              /\ pc = "ports"
              /\ requests = <<RoutingRequest>>
              /\ exc = "None"]_vars

\* the comparison of the devices has failed in a cycle whose VPN poll had
\* found a change
C26_Witness ==
    /\ pc = "backoff"
    /\ requests = <<DeviceRequest>>
    /\ exc = "KeyError: 'speed'"
    /\ previous_devices # fetched_devices
    /\ previous_vpn_connections = fetched_vpn_connections
    /\ compared_vpn_connections = <<[if |-> l2tp0, addr |-> "10.0.0.5"]>>
    /\ fetched_vpn_connections = <<[if |-> l2tp0, addr |-> "10.0.0.9"]>>

----------------------------------------------------------------------------
(* Properties of the provision action of unifi-manager *)

CommandSent ==
    \E i \in DOMAIN requests :
        requests[i].method = "POST" /\ requests[i].path = "api/s/{site}/cmd/devmgr"

StatusSent ==
    \E i \in DOMAIN requests :
        /\ requests[i].method = "GET"
        /\ requests[i].path \notin {"api/s/{site}/stat/device", "logout"}

\* --provision names a device the controller does not hold
NotFoundByName ==
    /\ args.provision # None
    /\ ~is_mac_address(args.provision)
    /\ \A i \in DOMAIN controller_devices : controller_devices[i].name # args.provision

\* C27: the force-provision command is sent only right after a status request
\* that returned the state Connected; the wait loop is entered only from the
\* status request that follows the command and returned Provisioning; each
\* pass of the loop makes one status request and the loop goes on exactly
\* while that status is Provisioning; a run whose --provision names no device
\* of the controller sends neither a status request nor the command.
C27_ProvisionGuards ==
    [][/\ CommandSent' =>
              /\ pc = "manager-command"
              /\ requests = <<status_request(mac_address)>>
              /\ returned.raised = "None"
              /\ returned.value.state = "connected"
              /\ requests' = <<force_provision(mac_address)>>
       /\ (pc # "manager-wait" /\ pc' = "manager-wait") =>
              /\ CommandSent
              /\ requests' = <<status_request(mac_address)>>
              /\ returned'.raised = "None"
              /\ returned'.value.state = "provisioning"
       /\ pc = "manager-wait" =>
              /\ requests' = <<status_request(mac_address)>>
              /\ pc' = "manager-wait" <=>
                     (returned'.raised = "None" /\ returned'.value.state = "provisioning")
              /\ pc' # "manager-wait" => pc' \in {"manager-ap", "manager-exited"}
       /\ NotFoundByName => (~CommandSent' /\ ~StatusSent' /\ mac_address' = None)]_vars

\* the wait loop has been entered for an access point given by its name
C27_Witness ==
    /\ pc = "manager-wait"
    /\ args.provision = "AP-Salon"
    /\ cached_devices.set
    /\ mac_address = "fc:ec:da:00:00:03"
    /\ requests = <<status_request("fc:ec:da:00:00:03")>>
    /\ returned.raised = "None"
    /\ returned.value.state = "provisioning"

====
